---- MODULE Spec2Model ----
(***************************************************************************)
(* Model of the ZHA <-> MQTT bridge (coordinator.py, mqtt_handler.py,      *)
(* device_command_handler.py, event_handler.py, cluster_handler.py,        *)
(* helpers.py).                                                            *)
(*                                                                         *)
(* One asyncio loop drives everything: a step of the model is the code a   *)
(* task or callback runs between two suspension points (await).  The       *)
(* Device Network (the zha/zigpy gateway) and the broker are the           *)
(* environment: the result of an awaited Device Network call and the       *)
(* changes the gateway makes to its own device table are chosen            *)
(* nondeterministically.                                                   *)
(***************************************************************************)
EXTENDS Integers, Sequences, FiniteSets, TLC

(***************************************************************************)
(* Bounds of the model.                                                    *)
(***************************************************************************)
MaxCmds == 1
MaxEvents == 2
MaxChanges == 1
MaxSweeps == 1
MaxReports == 2
MaxPair == 2

(***************************************************************************)
(* Program constants.                                                      *)
(***************************************************************************)
OnOff == 6
LevelControl == 8
ColorControl == 768
IasZone == 1280
Temperature == 1026
Humidity == 1029
Thermostat == 513
DoorLock == 257
max_attempts == 3
permit_retry_count == 3
switch_retry_delay == 2
permit_retry_delay == 1
retry_count == 3
join_polls == 3
NoneVal == -1

SupportedClusters == {OnOff, LevelControl, ColorControl, IasZone, Temperature, Humidity}

(***************************************************************************)
(* The devices the Device Network may hold.  "c0" is the coordinator's own *)
(* device.  Each device object carries its endpoints; an endpoint carries  *)
(* the cluster ids of its cluster handlers.                                *)
(*   c0: no supported cluster                                              *)
(*   d1: a colour light, with an On/Off cluster on endpoint 0 as well      *)
(*   d2: a switch (endpoint 1) with measurement clusters (endpoint 2)      *)
(*   d3: a sensor whose only On/Off cluster sits on endpoint 0             *)
(***************************************************************************)
Coordinator == "c0"
Devices == {"d1", "d2", "d3"}
Addrs == {Coordinator} \cup Devices
KnownDevices == {Coordinator, "d1", "d2"}

DeviceEndpoints(d) ==
    CASE d = "c0" -> (0 :> {} @@ 1 :> {Thermostat})
      [] d = "d1" -> (0 :> {OnOff} @@ 1 :> {OnOff, LevelControl, ColorControl})
      [] d = "d2" -> (0 :> {} @@ 1 :> {OnOff} @@ 2 :> {Temperature, Humidity})
      [] d = "d3" -> (0 :> {OnOff} @@ 1 :> {IasZone, Temperature})

BindKeys == {k \in Addrs \X {0, 1, 2} \X SupportedClusters :
                /\ k[2] \in DOMAIN DeviceEndpoints(k[1])
                /\ k[3] \in DeviceEndpoints(k[1])[k[2]]}

Holders == {"coordinator", "mqtt_handler", "device_handler", "event_handler", "cluster_handler"}

VARIABLES
    startPc,       \* position of Coordinator.start
    startAttempt,  \* the loop variable `attempt` of Coordinator.start
    mqttStarted,   \* the MQTT client is connected and its loop thread runs
    loop,          \* Coordinator.loop is set
    gw,            \* holder -> gateway handle (0 is None)
    gwCount,       \* number of gateways created so far
    appController, \* gateway.application_controller of the newest gateway is set
    handlersSet,   \* the join/left handlers are registered on the gateway
    devices,       \* gateway.devices: address -> "absent", "available", "unavailable"
    listeners,     \* BindKeys -> number of attribute-update callbacks registered
    iasListeners,  \* BindKeys -> number of zigpy cluster listeners added
    cmds,          \* the command tasks created by the MQTT handler
    published,     \* every mqtt_client.publish call, in order
    events,        \* number of join/left events delivered so far
    changes,       \* number of changes the gateway made to its device table
    lastJoin,      \* the last run of the join handler: its input, the number of
                   \* checks of device.endpoints it made, and the length of
                   \* `published` when it started
    refresh,       \* the run of _refresh_devices: its position and what it read
    stop,          \* the run of Coordinator.stop: its position and the calls it made
    last_error,    \* the local last_error of Coordinator.start
    attr           \* the attribute updates delivered to the event handler so far

vars == <<startPc, startAttempt, mqttStarted, loop, gw, gwCount, appController,
          handlersSet, devices, listeners, iasListeners, cmds, published, events,
          changes, lastJoin, refresh, stop, last_error, attr>>

NoJoin == [ieee |-> "none", polls |-> 0, endpoints |-> {}, inRegistry |-> FALSE,
           at |-> 0, n |-> 0]

\* no sweep has run: dev and idx name the read the sweep is suspended in, size0 is
\* the size of gateway.devices when its iteration began, reads are the reads issued
\* so far, snapshot is what the registry held when the sweep began
NoRefresh == [pc |-> "idle", sweeps |-> 0, dev |-> "none", idx |-> 0, size0 |-> 0,
              reads |-> <<>>, snapshot |-> [d \in {"c0", "d1", "d2", "d3"} |-> "absent"],
              aborted |-> FALSE, failed |-> FALSE]

\* stop has not been called: calls are the calls stop made with their results, in
\* order; from is the position start had reached when stop was called
NoStop == [pc |-> "idle", calls |-> <<>>, from |-> "none", raised |-> FALSE]

\* no attribute update has been delivered: n counts the updates, raised those whose
\* handler let an exception out; key, name and value are the last update, at is the
\* length of `published` when its handler started
NoAttr == [n |-> 0, raised |-> 0, key |-> <<"none", 0, 0>>, name |-> "none",
           value |-> 0, at |-> 0]

Init ==
    /\ startPc = "constructed"
    /\ startAttempt = 0
    /\ mqttStarted = FALSE
    /\ loop = FALSE
    /\ gw = [h \in Holders |-> 0]
    /\ gwCount = 0
    /\ appController = FALSE
    /\ handlersSet = FALSE
    /\ devices = [d \in Addrs |-> "absent"]
    /\ listeners = [k \in BindKeys |-> 0]
    /\ iasListeners = [k \in BindKeys |-> 0]
    /\ cmds = <<>>
    /\ published = <<>>
    /\ events = 0
    /\ changes = 0
    /\ lastJoin = NoJoin
    /\ refresh = NoRefresh
    /\ stop = NoStop
    /\ last_error = "none"
    /\ attr = NoAttr

(***************************************************************************)
(* Publishing.                                                             *)
(***************************************************************************)
Msg(topic, payload, retain, cmd) ==
    [topic |-> topic, payload |-> payload, retain |-> retain, cmd |-> cmd]

publish_status(status) ==
    Msg(<<"zigbee", "coordinator", "status">>, [status |-> status], TRUE, 0)

(***************************************************************************)
(* Cluster binding (cluster_handler.py).  Every supported cluster id has   *)
(* its own branch, and every branch registers one more callback with       *)
(* cluster_handler.on_event; a cluster id without a branch is skipped.     *)
(***************************************************************************)
setup_endpoint_cluster_handlers(L, d, ep) ==
    [k \in BindKeys |-> IF k[1] = d /\ k[2] = ep THEN L[k] + 1 ELSE L[k]]

RECURSIVE BindEndpoints(_, _, _)
BindEndpoints(L, d, eps) ==
    IF eps = {} THEN L
    ELSE LET ep == CHOOSE e \in eps : TRUE
         IN  BindEndpoints(setup_endpoint_cluster_handlers(L, d, ep), d, eps \ {ep})

NonZeroEndpoints(d) == {ep \in DOMAIN DeviceEndpoints(d) : ep # 0}

\* setup_cluster_handlers(gateway, device, endpoint), once per non-zero endpoint
setup_cluster_handlers_device(L, reg, d) ==
    IF reg[d] # "available" THEN L
    ELSE BindEndpoints(L, d, NonZeroEndpoints(d))

RECURSIVE BindDevices(_, _, _)
BindDevices(L, reg, ds) ==
    IF ds = {} THEN L
    ELSE LET d == CHOOSE x \in ds : TRUE
         IN  BindDevices(setup_cluster_handlers_device(L, reg, d), reg, ds \ {d})

subscribe_existing_ias_zones(I, reg) ==
    [k \in BindKeys |->
        IF reg[k[1]] # "absent" /\ k[2] # 0 /\ k[3] = IasZone THEN I[k] + 1 ELSE I[k]]

\* setup_cluster_handlers(gateway): every device of the registry
setup_cluster_handlers_all(L, reg) ==
    BindDevices(L, reg, {d \in Addrs : reg[d] # "absent" /\ d # Coordinator})

(***************************************************************************)
(* Coordinator.start and _start_zigbee_network.                            *)
(***************************************************************************)
NoListeners == [k \in BindKeys |-> 0]
NoDevices == [d \in Addrs |-> "absent"]

\* start without the publish of its outer except
AttemptFailedSilent(e) ==
    /\ last_error' = e
    /\ IF startAttempt = retry_count - 1
       THEN /\ startPc' = "failed"
            /\ UNCHANGED published
       ELSE /\ startPc' = "backoff"
            /\ UNCHANGED published
    /\ UNCHANGED startAttempt

\* the except branch of the retry loop of start, and start's outer except; e is the
\* exception _start_zigbee_network raised
AttemptFailed(e) ==
    /\ last_error' = e
    /\ IF startAttempt = retry_count - 1
       THEN /\ startPc' = "failed"
            /\ published' = Append(published, publish_status("offline"))
       ELSE /\ startPc' = "backoff"
            /\ UNCHANGED published
    /\ UNCHANGED startAttempt

\* start: mqtt_handler.start() connects and starts the client's own thread
StartBegin ==
    /\ startPc = "constructed"
    /\ mqttStarted' = TRUE
    /\ startPc' = "starting"
    /\ UNCHANGED <<startAttempt, loop, gw, gwCount, appController, handlersSet, devices,
                   listeners, iasListeners, cmds, published, events, changes, lastJoin>>
    /\ UNCHANGED <<refresh, stop, last_error, attr>>

\* _start_zigbee_network up to its first await, Gateway.async_from_config
\* under asyncio.wait_for
StartNetworkBegin ==
    /\ startPc = "starting"
    /\ loop' = TRUE
    /\ startPc' = "creating"
    /\ UNCHANGED <<startAttempt, mqttStarted, gw, gwCount, appController, handlersSet,
                   devices, listeners, iasListeners, cmds, published, events, changes,
                   lastJoin>>
    /\ UNCHANGED <<refresh, stop, last_error, attr>>

\* how the wait for async_from_config can end: "timeout" is the asyncio.TimeoutError
\* of wait_for, which is raised again as a RuntimeError
CreateResults == {"ok", "fail", "timeout"}

\* the wait for async_from_config ends with r
FromConfigDone(r) ==
    /\ startPc = "creating"
    /\ IF r = "ok"
       THEN /\ gwCount' = gwCount + 1
            /\ gw' = [gw EXCEPT !["coordinator"] = gwCount + 1,
                                !["mqtt_handler"] = gwCount + 1,
                                !["device_handler"] = gwCount + 1]
            /\ appController' = FALSE
            /\ handlersSet' = FALSE
            /\ devices' = NoDevices
            /\ listeners' = NoListeners
            /\ iasListeners' = NoListeners
            /\ startPc' = "initializing"
            /\ UNCHANGED <<startAttempt, published, last_error>>
       ELSE /\ AttemptFailed(r)
            /\ UNCHANGED <<gw, gwCount, appController, handlersSet, devices,
                           listeners, iasListeners>>
    /\ UNCHANGED <<mqttStarted, loop, cmds, events, changes, lastJoin>>
    /\ UNCHANGED <<refresh, stop, attr>>

InitializeDone(r) ==
    /\ startPc = "initializing"
    /\ IF r = "ok"
       THEN /\ appController' = TRUE
            /\ devices' = [d \in Addrs |-> IF d \in KnownDevices THEN "available"
                                                                   ELSE "absent"]
            /\ startPc' = "loading"
            /\ UNCHANGED <<startAttempt, published, last_error>>
       ELSE /\ AttemptFailed(r)
            /\ UNCHANGED <<appController, devices>>
    /\ UNCHANGED <<mqttStarted, loop, gw, gwCount, handlersSet, listeners,
                   iasListeners, cmds, events, changes, lastJoin>>
    /\ UNCHANGED <<refresh, stop, attr>>

InitDevicesDone(r) ==
    /\ startPc = "loading"
    /\ IF r = "ok"
       THEN /\ gw' = [gw EXCEPT !["event_handler"] = gw["coordinator"],
                                !["cluster_handler"] = gw["coordinator"]]
            /\ handlersSet' = TRUE
            /\ listeners' = setup_cluster_handlers_all(listeners, devices)
            /\ iasListeners' = subscribe_existing_ias_zones(iasListeners, devices)
            /\ published' = Append(published, publish_status("online"))
            /\ startPc' = "running"
            /\ UNCHANGED <<startAttempt, last_error>>
       ELSE /\ AttemptFailed(r)
            /\ UNCHANGED <<gw, handlersSet, listeners, iasListeners>>
    /\ UNCHANGED <<mqttStarted, loop, gwCount, appController, devices, cmds, events,
                   changes, lastJoin>>
    /\ UNCHANGED <<refresh, stop, attr>>

BackoffDone ==
    /\ startPc = "backoff"
    /\ startAttempt' = startAttempt + 1
    /\ loop' = TRUE
    /\ startPc' = "creating"
    /\ UNCHANGED <<mqttStarted, gw, gwCount, appController, handlersSet, devices,
                   listeners, iasListeners, cmds, published, events, changes, lastJoin>>
    /\ UNCHANGED <<refresh, stop, last_error, attr>>

(***************************************************************************)
(* Inbound broker messages (mqtt_handler.py, _on_mqtt_message).  A topic   *)
(* is the sequence of its "/"-separated segments.  A payload is the JSON   *)
(* text: json says whether json.loads accepts it, has names the keys of    *)
(* the decoded object.                                                     *)
(***************************************************************************)
Kinds == {"switch", "light", "brightness", "color"}
Targets == Devices

SetSuffix(kind) ==
    CASE kind = "switch"     -> <<"switch", "set">>
      [] kind = "light"      -> <<"light", "set">>
      [] kind = "brightness" -> <<"light", "brightness", "set">>
      [] OTHER               -> <<"light", "color", "set">>

StateSuffix(kind) ==
    CASE kind = "switch"     -> <<"switch", "state">>
      [] kind = "light"      -> <<"light", "state">>
      [] kind = "brightness" -> <<"light", "brightness", "state">>
      [] OTHER               -> <<"light", "color", "state">>

SetTopic(ieee, kind) == <<"zigbee", "device", ieee>> \o SetSuffix(kind)
StateTopic(ieee, kind) == <<"zigbee", "device", ieee>> \o StateSuffix(kind)

\* msg.topic.startswith("zigbee/device/")
StartsWithDevice(t) == Len(t) >= 3 /\ t[1] = "zigbee" /\ t[2] = "device"
\* msg.topic.endswith("/" + suffix)
EndsWith(t, suffix) ==
    /\ Len(t) > Len(suffix)
    /\ SubSeq(t, Len(t) - Len(suffix) + 1, Len(t)) = suffix

Payload(has, state, brightness, hue, saturation, x, y) ==
    [json |-> TRUE, has |-> has, state |-> state, brightness |-> brightness,
     hue |-> hue, saturation |-> saturation, x |-> x, y |-> y]

NotJson == [json |-> FALSE, has |-> {}, state |-> "", brightness |-> 0,
            hue |-> 0, saturation |-> 0, x |-> NoneVal, y |-> NoneVal]
EmptyObject == Payload({}, "", 0, 0, 0, NoneVal, NoneVal)

\* x and y are fractions of 1, held in thousandths
Payloads ==
    {NotJson, EmptyObject}
    \cup {Payload({"state"}, st, 0, 0, 0, NoneVal, NoneVal) : st \in {"on", "OFF"}}
    \cup {Payload({"brightness"}, "", b, 0, 0, NoneVal, NoneVal) : b \in {0, 200}}
    \cup {Payload({"hue", "saturation"}, "", 0, 120, 50, NoneVal, NoneVal),
          Payload({"x", "y"}, "", 0, 0, 0, 300, 600)}

Topics == {SetTopic(a, k) : a \in Targets, k \in Kinds}

\* payload.get(key, default)
Get(p, key, default) == IF key \in p.has THEN p[key] ELSE default

\* str.lower()
Lower(s) == CASE s = "ON" -> "on" [] s = "OFF" -> "off" [] OTHER -> s

NewTask(kind, ieee, param) ==
    [kind |-> kind, ieee |-> ieee, param |-> param, pc |-> "ready", attempt |-> 0,
     results |-> <<>>, warnings |-> 0, outcome |-> "none", device |-> "none",
     ep |-> 0, op |-> <<>>, sleeps |-> <<>>, handle |-> 0]

PermitJoinTopic == <<"zigbee", "permit_join">>

\* the seconds handle_permit_join is called with
permit_time(permit_join) == IF permit_join THEN 120 ELSE 0

\* no branch of _on_mqtt_message takes the topic
ParseError == <<"ParseError">>

\* what the chain of topic tests of _on_mqtt_message makes of a topic: the branch
\* it takes and the address it cuts out with msg.topic.split('/')[2]; every branch
\* is a command to the bridge
parse(topic) ==
    IF topic = PermitJoinTopic THEN <<"", "permit_join", "set">>
    ELSE IF StartsWithDevice(topic) /\ EndsWith(topic, SetSuffix("switch"))
    THEN <<topic[3], "switch", "set">>
    ELSE IF StartsWithDevice(topic) /\ EndsWith(topic, SetSuffix("light"))
    THEN <<topic[3], "light", "set">>
    ELSE IF StartsWithDevice(topic) /\ EndsWith(topic, SetSuffix("brightness"))
    THEN <<topic[3], "brightness", "set">>
    ELSE IF StartsWithDevice(topic) /\ EndsWith(topic, SetSuffix("color"))
    THEN <<topic[3], "color", "set">>
    ELSE ParseError

\* the tasks _on_mqtt_message creates for one message: a sequence of 0 or 1 task
on_mqtt_message(topic, p) ==
    LET r == parse(topic)
        ieee == r[1]
    IN  IF ~p.json \/ r = ParseError THEN <<>>
        ELSE IF r[2] = "permit_join"
        THEN IF gw["mqtt_handler"] # 0 /\ appController /\ loop
             THEN <<NewTask("permit_join", ieee,
                            [time |-> permit_time(Get(p, "permit_join", FALSE))])>>
             ELSE <<>>
        ELSE IF r[2] \in {"switch", "light"}
        THEN LET state == Lower(Get(p, "state", ""))
             IN  IF state \in {"on", "off"} /\ loop
                 THEN <<NewTask(r[2], ieee, [state |-> (state = "on")])>>
                 ELSE <<>>
        ELSE IF r[2] = "brightness"
        THEN LET brightness == Get(p, "brightness", 0)
             IN  IF 0 <= brightness /\ brightness <= 255 /\ loop
                 THEN <<NewTask("brightness", ieee, [brightness |-> brightness])>>
                 ELSE <<>>
        ELSE IF loop
             THEN <<NewTask("color", ieee,
                            [hue |-> Get(p, "hue", 0), saturation |-> Get(p, "saturation", 0),
                             x |-> Get(p, "x", NoneVal), y |-> Get(p, "y", NoneVal)])>>
             ELSE <<>>

\* _on_mqtt_message, for a bridge that has created fewer than n tasks so far
ReceiveUpTo(n, topic, p) ==
    /\ mqttStarted
    /\ Len(cmds) < n
    /\ cmds' = cmds \o on_mqtt_message(topic, p)
    /\ UNCHANGED <<startPc, startAttempt, mqttStarted, loop, gw, gwCount, appController,
                   handlersSet, devices, listeners, iasListeners, published, events,
                   changes, lastJoin>>
    /\ UNCHANGED <<refresh, stop, last_error, attr>>

Receive(topic, p) == ReceiveUpTo(MaxCmds, topic, p)

(***************************************************************************)
(* Command handlers (device_command_handler.py).  A task runs from one     *)
(* await to the next in one step:                                          *)
(*   ready    -> the coroutine has not run yet                             *)
(*   awaiting -> suspended in the Device Network call                      *)
(*   sleeping -> suspended in asyncio.sleep between two attempts; sleeps   *)
(*               are the seconds of the sleeps made so far                 *)
(*   done     -> returned; outcome names the exit taken                    *)
(* t.device is the device object the handler holds; it keeps its endpoints *)
(* whatever happens to the registry afterwards.  t.handle is the gateway   *)
(* the handler took the device, or the application controller, from.       *)
(***************************************************************************)
ClusterOf(kind) ==
    CASE kind = "switch"     -> OnOff
      [] kind = "light"      -> OnOff
      [] kind = "brightness" -> LevelControl
      [] OTHER               -> ColorControl

\* only handle_switch_command wraps the call in `while attempt < max_attempts`
HasRetryLoop(kind) == kind = "switch"

\* a lookup that trusts the address of the topic
LookupDeviceUnchecked(reg, ieee) ==
    IF ieee \in Addrs THEN ieee ELSE "none"

\* gateway.devices.get(ieee), then the scan comparing str(dev.ieee) with ieee
LookupDevice(reg, ieee) ==
    IF ieee \in Addrs /\ reg[ieee] # "absent" THEN ieee ELSE "none"

\* the scan without its `endpoint.id != 0`
ScannedEndpointsAll(d) == DOMAIN DeviceEndpoints(d)

\* the endpoints the scan of device.endpoints accepts
ScannedEndpoints(d) == {ep \in DOMAIN DeviceEndpoints(d) : ep # 0}

MatchingEndpoints(d, cl) == {ep \in ScannedEndpoints(d) : cl \in DeviceEndpoints(d)[ep]}

FirstEndpoint(d, cl) ==
    CHOOSE ep \in MatchingEndpoints(d, cl) : \A o \in MatchingEndpoints(d, cl) : ep <= o

\* int(x): truncation towards zero of n / 1000
IntTrunc(n) == IF n >= 0 THEN n \div 1000 ELSE -((-n) \div 1000)

DeviceOp(kind, param) ==
    CASE kind \in {"switch", "light"} -> <<"command", IF param.state THEN 1 ELSE 0>>
      [] kind = "brightness" -> <<"move_to_level_with_on_off", param.brightness, 0>>
      [] OTHER ->
           IF param.x # NoneVal /\ param.y # NoneVal
           THEN <<"move_to_color", IntTrunc(param.x * 65535), IntTrunc(param.y * 65535), 0>>
           ELSE <<"move_to_hue_and_saturation", param.hue, param.saturation, 0>>

StatePayload(kind, ieee, param) ==
    CASE kind \in {"switch", "light"} ->
           [state |-> IF param.state THEN "on" ELSE "off", ieee |-> ieee]
      [] kind = "brightness" -> [brightness |-> param.brightness, ieee |-> ieee]
      [] OTHER -> [hue |-> param.hue, saturation |-> param.saturation,
                   x |-> param.x, y |-> param.y, ieee |-> ieee]

StateMessage(t, c) == Msg(StateTopic(t.ieee, t.kind), StatePayload(t.kind, t.ieee, t.param), TRUE, c)

\* the publish of handle_permit_join
PermitMessage(t, c) ==
    Msg(<<"zigbee", "permit_join", "status">>,
        [status |-> IF t.param.time > 0 THEN "enabled" ELSE "disabled",
         time |-> t.param.time], TRUE, c)

\* what a handler publishes after the call it awaited succeeded
SuccessMessage(t, c) ==
    IF t.kind = "permit_join" THEN PermitMessage(t, c) ELSE StateMessage(t, c)

Finish(t, outcome) == [t EXCEPT !.pc = "done", !.outcome = outcome]

\* the scan of the held device's endpoints up to the awaited call
IssueOrUnsupported(t) ==
    IF MatchingEndpoints(t.device, ClusterOf(t.kind)) = {}
    THEN Finish(t, "Unsupported")
    ELSE [t EXCEPT !.pc = "awaiting",
                   !.ep = FirstEndpoint(t.device, ClusterOf(t.kind)),
                   !.op = DeviceOp(t.kind, t.param)]

\* handle_permit_join up to its await of application_controller.permit
BeginPermit(t) ==
    IF gw["device_handler"] = 0 \/ ~appController THEN Finish(t, "Error")
    ELSE [t EXCEPT !.pc = "awaiting", !.op = <<"permit", t.param.time>>,
                   !.handle = gw["device_handler"]]

\* from the start of the coroutine to its first await or its return
Begin(t) ==
    IF t.kind = "permit_join" THEN BeginPermit(t)
    ELSE IF gw["device_handler"] = 0 THEN Finish(t, "Error")
    ELSE IF LookupDevice(devices, t.ieee) = "none" THEN Finish(t, "NotFound")
    ELSE IssueOrUnsupported([t EXCEPT !.device = LookupDevice(devices, t.ieee),
                                      !.handle = gw["device_handler"]])

\* the retry branch without its logger.warning
SwitchTimeoutSilent(t) ==
    IF t.attempt + 1 < max_attempts
    THEN [t EXCEPT !.attempt = t.attempt + 1, !.pc = "sleeping",
                   !.sleeps = Append(t.sleeps, switch_retry_delay)]
    ELSE Finish([t EXCEPT !.attempt = t.attempt + 1], "TimeoutError")

\* the except TimeoutError branch of handle_switch_command
SwitchTimeout(t) ==
    IF t.attempt + 1 < max_attempts
    THEN [t EXCEPT !.attempt = t.attempt + 1, !.warnings = t.warnings + 1,
                   !.pc = "sleeping", !.sleeps = Append(t.sleeps, switch_retry_delay)]
    ELSE Finish([t EXCEPT !.attempt = t.attempt + 1], "TimeoutError")

\* the except asyncio.TimeoutError branch of handle_permit_join
PermitTimeout(t) ==
    IF t.attempt = permit_retry_count - 1
    THEN Finish([t EXCEPT !.attempt = t.attempt + 1], "TimeoutError")
    ELSE [t EXCEPT !.attempt = t.attempt + 1, !.warnings = t.warnings + 1,
                   !.pc = "sleeping", !.sleeps = Append(t.sleeps, permit_retry_delay)]

\* the retry branch catching every exception, not only TimeoutError
AfterCallRetryAny(t, r) ==
    LET u == [t EXCEPT !.results = Append(t.results, r)]
    IN  CASE r = "Success" -> Finish(u, "Success")
          [] OTHER         -> IF HasRetryLoop(t.kind) THEN SwitchTimeout(u)
                              ELSE Finish(u, "Error")

\* what a handler does when its awaited Device Network call ends with r
AfterCall(t, r) ==
    LET u == [t EXCEPT !.results = Append(t.results, r)]
    IN  CASE r = "Success" -> Finish(u, "Success")
          [] r = "Timeout" -> IF t.kind = "permit_join" THEN PermitTimeout(u)
                              ELSE IF HasRetryLoop(t.kind) THEN SwitchTimeout(u)
                              ELSE Finish(u, "TimeoutError")
          [] OTHER         -> Finish(u, "Error")

cmdUnchanged == <<startPc, startAttempt, mqttStarted, loop, gw, gwCount, appController,
                  handlersSet, devices, listeners, iasListeners, events, changes, lastJoin,
                  refresh, stop, last_error, attr>>

\* a task that starts only when every task created before it has returned
DispatchQueued(c) ==
    /\ cmds[c].pc = "ready"
    /\ \A o \in 1..(c - 1) : cmds[o].pc = "done"
    /\ cmds' = [cmds EXCEPT ![c] = Begin(cmds[c])]
    /\ UNCHANGED published
    /\ UNCHANGED cmdUnchanged

\* the loop runs the task loop.create_task made of the handler's coroutine
Dispatch(c) ==
    /\ cmds[c].pc = "ready"
    /\ cmds' = [cmds EXCEPT ![c] = Begin(cmds[c])]
    /\ UNCHANGED published
    /\ UNCHANGED cmdUnchanged

\* the publish moved out of the success path
CompletePublishAlways(c, r) ==
    /\ cmds[c].pc = "awaiting"
    /\ cmds' = [cmds EXCEPT ![c] = AfterCall(cmds[c], r)]
    /\ published' = Append(published, SuccessMessage(cmds[c], c))
    /\ UNCHANGED cmdUnchanged

Complete(c, r) ==
    /\ cmds[c].pc = "awaiting"
    /\ cmds' = [cmds EXCEPT ![c] = AfterCall(cmds[c], r)]
    /\ published' = IF r = "Success" THEN Append(published, SuccessMessage(cmds[c], c))
                    ELSE published
    /\ UNCHANGED cmdUnchanged

\* the sleep between two attempts is over: the loop makes its next attempt
Wake(c) ==
    /\ cmds[c].pc = "sleeping"
    /\ cmds' = [cmds EXCEPT ![c] = IF cmds[c].kind = "permit_join"
                                    THEN BeginPermit(cmds[c])
                                    ELSE IssueOrUnsupported(cmds[c])]
    /\ UNCHANGED published
    /\ UNCHANGED cmdUnchanged

CallResults == {"Success", "Timeout", "Error"}

(***************************************************************************)
(* Device Network events (event_handler.py).  The handlers are plain       *)
(* callbacks: each runs to completion in one step.                         *)
(***************************************************************************)
\* helpers.get_endpoint_capabilities, from the in_clusters of one endpoint
get_endpoint_capabilities(clusters) ==
    {cap \in {"ias_zone", "switch", "thermostat", "lock", "light"} :
        \/ cap = "ias_zone" /\ IasZone \in clusters
        \/ cap = "switch" /\ OnOff \in clusters
        \/ cap = "thermostat" /\ Thermostat \in clusters
        \/ cap = "lock" /\ DoorLock \in clusters
        \/ cap = "light" /\ ColorControl \in clusters}

\* the endpoints the Device Network has enumerated when the event arrives
Enumerations(d) == {{}, {0}, DOMAIN DeviceEndpoints(d)}

\* `for _ in range(3): if device.endpoints: break`: the number of checks made
Polls(zeps) == IF zeps # {} THEN 1 ELSE join_polls

\* capabilities of every non-zero endpoint, merged with dict.update
JoinedCapabilities(d, zeps) ==
    UNION {get_endpoint_capabilities(DeviceEndpoints(d)[ep]) : ep \in zeps \ {0}}

\* has names the optional keys the message carries: "endpoints" and "capabilities"
\* are set only when their dict is not empty
JoinedPayload(d, zeps) ==
    [event |-> "device_joined", ieee |-> d,
     has |-> {k \in {"endpoints", "capabilities"} :
                 \/ k = "endpoints" /\ zeps \ {0} # {}
                 \/ k = "capabilities" /\ JoinedCapabilities(d, zeps) # {}},
     endpoints |-> zeps \ {0},
     capabilities |-> JoinedCapabilities(d, zeps)]

JoinedMessages(d, zeps) ==
    << Msg(<<"zigbee", "device", "joined">>, JoinedPayload(d, zeps), FALSE, 0),
       Msg(<<"zigbee", "device", d, "status">>, [ieee |-> d, status |-> "joined"], TRUE, 0) >>

\* gateway.devices.get(device_info.ieee) is None: device.endpoints raises, and the
\* outer except logs it
JoinRaises(reg, d) == reg[d] = "absent"

DeviceJoined(d, zeps) ==
    /\ handlersSet
    /\ events < MaxEvents
    /\ events' = events + 1
    /\ lastJoin' = [ieee |-> d, polls |-> Polls(zeps), endpoints |-> zeps,
                    inRegistry |-> devices[d] # "absent",
                    at |-> Len(published), n |-> events + 1]
    /\ IF JoinRaises(devices, d)
       THEN UNCHANGED <<gw, listeners, published>>
       ELSE /\ gw' = [gw EXCEPT !["cluster_handler"] = gw["event_handler"]]
            /\ listeners' = setup_cluster_handlers_device(listeners, devices, d)
            /\ published' = published \o JoinedMessages(d, zeps)
    /\ UNCHANGED <<startPc, startAttempt, mqttStarted, loop, gwCount, appController,
                   handlersSet, devices, iasListeners, cmds, changes>>
    /\ UNCHANGED <<refresh, stop, last_error, attr>>

\* the left message published like a state message
LeftMessageRetained(d) ==
    Msg(<<"zigbee", "device", "left">>, [event |-> "device_left", ieee |-> d], TRUE, 0)

LeftMessage(d) ==
    Msg(<<"zigbee", "device", "left">>, [event |-> "device_left", ieee |-> d], FALSE, 0)

DeviceLeft(d) ==
    /\ handlersSet
    /\ events < MaxEvents
    /\ events' = events + 1
    /\ published' = Append(published, LeftMessage(d))
    /\ UNCHANGED <<startPc, startAttempt, mqttStarted, loop, gw, gwCount, appController,
                   handlersSet, devices, listeners, iasListeners, cmds, changes,
                   lastJoin>>
    /\ UNCHANGED <<refresh, stop, last_error, attr>>

(***************************************************************************)
(* Attribute updates (event_handler.py, handle_*_attribute_updated).  A    *)
(* cluster handler emits the update to every callback registered on it;    *)
(* each callback is a plain function.  The event names its cluster handler *)
(* by cluster_handler_unique_id, which the Device Network builds from the  *)
(* address of the device, the endpoint and the cluster; the handlers put   *)
(* str() of it into the topic and into the ieee field.  A raw value is an  *)
(* integer, or NoneVal for a report without a value.                       *)
(***************************************************************************)
ClusterHex(cl) ==
    CASE cl = OnOff        -> "0x0006"
      [] cl = LevelControl -> "0x0008"
      [] cl = ColorControl -> "0x0300"
      [] cl = IasZone      -> "0x0500"
      [] cl = Temperature  -> "0x0402"
      [] OTHER             -> "0x0405"

cluster_handler_unique_id(k) == k[1] \o ":" \o ToString(k[2]) \o ":" \o ClusterHex(k[3])

\* the truth value Python gives a raw value
Truthy(v) == v # NoneVal /\ v # 0

\* a & b on non-negative integers
RECURSIVE BitAnd(_, _)
BitAnd(a, b) ==
    IF a = 0 \/ b = 0 THEN 0
    ELSE (a % 2) * (b % 2) + 2 * BitAnd(a \div 2, b \div 2)

\* a flag table that tests tamper with the mask of battery
ZoneFlagMasksShifted ==
    << <<1, "alarm1">>, <<2, "alarm2">>, <<8, "tamper">>, <<8, "battery">>,
       <<16, "supervision_reports">>, <<32, "restore_reports">>, <<64, "trouble">>,
       <<128, "ac_mains">> >>

\* the masks handle_ias_zone_attribute_updated tests, in its order, and the flag
\* each appends
ZoneFlagMasks ==
    << <<1, "alarm1">>, <<2, "alarm2">>, <<4, "tamper">>, <<8, "battery">>,
       <<16, "supervision_reports">>, <<32, "restore_reports">>, <<64, "trouble">>,
       <<128, "ac_mains">> >>

\* the list zone_status_flags built for int(event.attribute_value)
zone_status_flags(zone_status) ==
    LET Set(m) == BitAnd(zone_status, m[1]) # 0
        hit == SelectSeq(ZoneFlagMasks, Set)
    IN  [i \in 1..Len(hit) |-> hit[i][2]]

\* value / 100.0, as the fraction it is
Hundredths(value) == <<value, 100>>

\* int(None) and None / 100.0 raise TypeError, and these handlers have no try
AttrRaises(cl, name, value) ==
    \/ cl = IasZone /\ name = "zone_status" /\ value = NoneVal
    \/ cl \in {Temperature, Humidity} /\ name = "measured_value" /\ value = NoneVal

\* handle_attribute_updated(event, topic_prefix)
handle_attribute_updated(uid, prefix, name, value) ==
    <<Msg(<<"zigbee", "device", uid>> \o prefix \o <<"state">>,
          [attribute |-> name, value |-> value, ieee |-> uid], TRUE, 0)>>

\* what one call of the callback of cluster cl publishes: 0 or 1 message
AttrMessages(uid, cl, name, value) ==
    CASE cl = OnOff ->
           IF name = "on_off"
           THEN <<Msg(<<"zigbee", "device", uid, "switch", "state">>,
                      [state |-> IF Truthy(value) THEN "on" ELSE "off", ieee |-> uid],
                      TRUE, 0)>>
           ELSE <<>>
      [] cl = LevelControl ->
           IF name = "current_level"
           THEN handle_attribute_updated(uid, <<"light", "brightness">>, name, value)
           ELSE <<>>
      [] cl = ColorControl ->
           handle_attribute_updated(uid, <<"light", "color">>, name, value)
      [] cl = IasZone ->
           IF name = "zone_status"
           THEN <<Msg(<<"zigbee", "device", uid, "ias_zone", "state">>,
                      [zone_status |-> value,
                       zone_status_flags |-> zone_status_flags(value), ieee |-> uid],
                      TRUE, 0)>>
           ELSE <<>>
      [] cl = Temperature ->
           IF name = "measured_value"
           THEN <<Msg(<<"zigbee", "device", uid, "temperature", "state">>,
                      [temperature |-> Hundredths(value), ieee |-> uid], TRUE, 0)>>
           ELSE <<>>
      [] OTHER ->
           IF name = "measured_value"
           THEN <<Msg(<<"zigbee", "device", uid, "humidity", "state">>,
                      [humidity |-> Hundredths(value), ieee |-> uid], TRUE, 0)>>
           ELSE <<>>

RECURSIVE Repeat(_, _)
Repeat(seq, n) == IF n = 0 THEN <<>> ELSE seq \o Repeat(seq, n - 1)

\* cluster handler k emits an update of attribute name to value: every callback
\* registered on it runs; an exception of a callback goes to the emitter
AttributeUpdated(k, name, value) ==
    /\ devices[k[1]] # "absent"
    /\ listeners[k] > 0
    /\ attr.n < MaxReports
    /\ attr' = [n |-> attr.n + 1,
                raised |-> attr.raised + (IF AttrRaises(k[3], name, value) THEN 1 ELSE 0),
                key |-> k, name |-> name, value |-> value, at |-> Len(published)]
    /\ published' =
          IF AttrRaises(k[3], name, value) THEN published
          ELSE published \o Repeat(AttrMessages(cluster_handler_unique_id(k), k[3],
                                                name, value), listeners[k])
    /\ UNCHANGED <<startPc, startAttempt, mqttStarted, loop, gw, gwCount, appController,
                   handlersSet, devices, listeners, iasListeners, cmds, events, changes,
                   lastJoin, refresh, stop, last_error>>

(***************************************************************************)
(* The gateway's own changes to gateway.devices.  The bridge never writes  *)
(* the table; it reads it in the command handlers, the join handler and     *)
(* the binding code.                                                       *)
(***************************************************************************)
envUnchanged == <<startPc, startAttempt, mqttStarted, loop, gw, gwCount, appController,
                  handlersSet, cmds, published, events, lastJoin, refresh, stop,
                  last_error, attr>>

Changed == changes < MaxChanges /\ changes' = changes + 1

DeviceInitialized(d) ==
    /\ appController
    /\ Changed
    /\ devices[d] = "absent"
    /\ devices' = [devices EXCEPT ![d] = "available"]
    /\ UNCHANGED <<listeners, iasListeners>>
    /\ UNCHANGED envUnchanged

\* the device object leaves the table, and its cluster handlers with it
DeviceRemoved(d) ==
    /\ appController
    /\ Changed
    /\ devices[d] # "absent"
    /\ devices' = [devices EXCEPT ![d] = "absent"]
    /\ listeners' = [k \in BindKeys |-> IF k[1] = d THEN 0 ELSE listeners[k]]
    /\ iasListeners' = [k \in BindKeys |-> IF k[1] = d THEN 0 ELSE iasListeners[k]]
    /\ UNCHANGED envUnchanged

SetAvailability(d, b) ==
    /\ appController
    /\ Changed
    /\ devices[d] # "absent"
    /\ devices[d] # b
    /\ devices' = [devices EXCEPT ![d] = b]
    /\ UNCHANGED <<listeners, iasListeners>>
    /\ UNCHANGED envUnchanged

(***************************************************************************)
(* Coordinator._refresh_devices (coordinator.py).  One step runs from one  *)
(* `await cluster_handler.async_update()` to the next.  The sweep iterates *)
(* gateway.devices.values() itself: when the size of the dict differs from *)
(* its size at the start, the next advance of the device loop raises       *)
(* RuntimeError, which the outer except logs.  The loops over the          *)
(* endpoints and the cluster handlers run on the device object in hand.    *)
(* Nothing in the bridge calls _refresh_devices; SpecRefresh adds a caller *)
(* to check what a sweep does when it is made.                             *)
(***************************************************************************)
\* the order in which gateway.devices yields its devices
Order == <<"c0", "d1", "d2", "d3">>
Pos(d) == CHOOSE i \in 1..Len(Order) : Order[i] = d

RegistrySize(reg) == Cardinality({d \in Addrs : reg[d] # "absent"})

\* endpoint by endpoint, cluster handler by cluster handler
ReadBefore(a, b) == a[1] < b[1] \/ (a[1] = b[1] /\ a[2] < b[2])

RECURSIVE InReadOrder(_)
InReadOrder(pairs) ==
    IF pairs = {} THEN <<>>
    ELSE LET first == CHOOSE a \in pairs : \A b \in pairs \ {a} : ReadBefore(a, b)
         IN  <<first>> \o InReadOrder(pairs \ {first})

\* the sweep without its skip of endpoint 0
RefreshedEndpointsAll(d) == DOMAIN DeviceEndpoints(d)

\* `if endpoint.id == 0: continue`
RefreshedEndpoints(d) == {ep \in DOMAIN DeviceEndpoints(d) : ep # 0}

\* the reads the sweep makes on one device: every cluster handler of every endpoint
\* it does not skip
DeviceReads(d) ==
    InReadOrder(UNION {{<<ep, cl>> : cl \in DeviceEndpoints(d)[ep]} :
                          ep \in RefreshedEndpoints(d)})

\* `if device.is_coordinator: continue`: the next device after position i that the
\* sweep reads, 0 when the registry has none
NextDevice(reg, i) ==
    LET later == {j \in (i + 1)..Len(Order) :
                     /\ reg[Order[j]] # "absent"
                     /\ Order[j] # Coordinator
                     /\ DeviceReads(Order[j]) # <<>>}
    IN  IF later = {} THEN 0 ELSE CHOOSE j \in later : \A o \in later : j <= o

ReadOf(reg, d, i) ==
    [ieee |-> d, ep |-> DeviceReads(d)[i][1], cluster |-> DeviceReads(d)[i][2],
     available |-> reg[d]]

\* the device loop moves on from position i: to the first read of the next device,
\* or to the end of the sweep
Advance(rf, reg, i) ==
    IF RegistrySize(reg) # rf.size0
    THEN [rf EXCEPT !.pc = "done", !.aborted = TRUE]
    ELSE IF NextDevice(reg, i) = 0
    THEN [rf EXCEPT !.pc = "done"]
    ELSE LET d == Order[NextDevice(reg, i)]
         IN  [rf EXCEPT !.pc = "reading", !.dev = d, !.idx = 1,
                        !.reads = Append(rf.reads, ReadOf(reg, d, 1))]

refreshUnchanged == <<startPc, startAttempt, mqttStarted, loop, gw, gwCount, appController,
                      handlersSet, devices, listeners, iasListeners, cmds, published,
                      events, changes, lastJoin, stop, last_error, attr>>

\* the call of _refresh_devices, up to its first await or its return
RefreshFire ==
    /\ startPc = "running"
    /\ refresh.pc # "reading"
    /\ refresh.sweeps < MaxSweeps
    /\ LET rf == [NoRefresh EXCEPT !.sweeps = refresh.sweeps + 1,
                                   !.size0 = RegistrySize(devices),
                                   !.snapshot = devices]
       IN  refresh' = IF gw["coordinator"] = 0 \/ RegistrySize(devices) = 0
                      THEN [rf EXCEPT !.pc = "done"]
                      ELSE Advance(rf, devices, 0)
    /\ UNCHANGED refreshUnchanged

\* the awaited async_update ends with r; an exception is logged and the loop goes on
RefreshRead(r) ==
    /\ refresh.pc = "reading"
    /\ LET rf == [refresh EXCEPT !.failed = refresh.failed \/ r # "Success"]
       IN  refresh' = IF refresh.idx < Len(DeviceReads(refresh.dev))
                      THEN [rf EXCEPT !.idx = refresh.idx + 1,
                                      !.reads = Append(refresh.reads,
                                                       ReadOf(devices, refresh.dev,
                                                              refresh.idx + 1))]
                      ELSE Advance(rf, devices, Pos(refresh.dev))
    /\ UNCHANGED refreshUnchanged

(***************************************************************************)
(* The specification.                                                      *)
(***************************************************************************)
Next ==
    \/ StartBegin
    \/ StartNetworkBegin
    \/ FromConfigDone("ok")
    \/ InitializeDone("ok")
    \/ InitDevicesDone("ok")
    \/ \E topic \in Topics, p \in Payloads : Receive(topic, p)
    \/ \E c \in 1..Len(cmds) : Dispatch(c)
    \/ \E c \in 1..Len(cmds), r \in CallResults : Complete(c, r)
    \/ \E c \in 1..Len(cmds) : Wake(c)
    \/ \E d \in Devices, zeps \in SUBSET {0, 1, 2} :
          zeps \in Enumerations(d) /\ DeviceJoined(d, zeps)
    \/ \E d \in Devices : DeviceLeft(d)
    \/ \E d \in Devices : DeviceInitialized(d)
    \/ \E d \in Devices : DeviceRemoved(d)
    \/ \E d \in Devices, b \in {"available", "unavailable"} : SetAvailability(d, b)

Spec == Init /\ [][Next]_vars

(***************************************************************************)
(* Coordinator.stop and MQTTHandler.stop (coordinator.py, mqtt_handler.py) *)
(* run_coordinator calls stop from its finally block: after start raised,  *)
(* or when the main task is cancelled at one of its awaits, which ends     *)
(* start where it is suspended.  publish_status has no await of its own    *)
(* and catches what mqtt_client.publish raises.                            *)
(***************************************************************************)
StepResults == {"ok", "fail"}

Call(name, r) == <<name, r>>

\* MQTTHandler.stop: disconnect, then loop_stop unless disconnect raised
MqttStopCalls(rd) ==
    IF rd = "ok" THEN <<Call("disconnect", "ok"), Call("loop_stop", "ok")>>
    ELSE <<Call("disconnect", rd)>>

\* Coordinator.stop after `await self.gateway.shutdown()` ended with r
AfterShutdown(st, r, rd) ==
    IF r = "ok"
    THEN [st EXCEPT !.pc = "done",
                    !.calls = (st.calls \o <<Call("shutdown", r)>>) \o MqttStopCalls(rd)]
    ELSE [st EXCEPT !.pc = "done", !.calls = Append(st.calls, Call("shutdown", r))]

StopPoints == {"creating", "initializing", "loading", "backoff", "running", "failed"}

\* stop, up to `await self.gateway.shutdown()` or, without a gateway, to its end
StopBegin(rp, rd) ==
    /\ stop.pc = "idle"
    /\ startPc \in StopPoints
    /\ startPc' = IF startPc = "failed" THEN "failed" ELSE "interrupted"
    /\ published' = IF rp = "ok" THEN Append(published, publish_status("offline"))
                    ELSE published
    /\ LET st == [stop EXCEPT !.from = startPc,
                              !.calls = <<Call("publish_status", rp)>>]
       IN  IF gw["coordinator"] # 0
           THEN /\ stop' = [st EXCEPT !.pc = "shutting"]
                /\ UNCHANGED mqttStarted
           ELSE /\ stop' = [st EXCEPT !.pc = "done", !.calls = st.calls \o MqttStopCalls(rd)]
                /\ mqttStarted' = (mqttStarted /\ rd # "ok")
    /\ UNCHANGED <<startAttempt, loop, gw, gwCount, appController, handlersSet, devices,
                   listeners, iasListeners, cmds, events, changes, lastJoin, refresh,
                   last_error, attr>>

ShutdownDone(r, rd) ==
    /\ stop.pc = "shutting"
    /\ stop' = AfterShutdown(stop, r, rd)
    /\ mqttStarted' = (mqttStarted /\ ~(r = "ok" /\ rd = "ok"))
    /\ UNCHANGED <<startPc, startAttempt, loop, gw, gwCount, appController, handlersSet,
                   devices, listeners, iasListeners, cmds, published, events, changes,
                   lastJoin, refresh, last_error, attr>>

(***************************************************************************)
(* The life of the bridge: startup with its failures and retries, the      *)
(* events of the Device Network, and shutdown.  An awaited call returns in *)
(* the end, and the loop runs a task that can run; when stop is called and *)
(* what the Device Network reports is up to the environment.               *)
(***************************************************************************)
StartSteps ==
    \/ StartBegin
    \/ StartNetworkBegin
    \/ \E r \in CreateResults : FromConfigDone(r)
    \/ \E r \in StepResults : InitializeDone(r)
    \/ \E r \in StepResults : InitDevicesDone(r)
    \/ BackoffDone

StopSteps == \E r \in StepResults, rd \in StepResults : ShutdownDone(r, rd)

NextLife ==
    \/ StartSteps
    \/ \E rp \in StepResults, rd \in StepResults : StopBegin(rp, rd)
    \/ StopSteps
    \/ \E d \in Devices, zeps \in SUBSET {0, 1, 2} :
          zeps \in Enumerations(d) /\ DeviceJoined(d, zeps)
    \/ \E d \in Devices : DeviceLeft(d)
    \/ \E d \in Devices : DeviceInitialized(d)
    \/ \E d \in Devices : DeviceRemoved(d)
    \/ \E d \in Devices, b \in {"available", "unavailable"} : SetAvailability(d, b)

SpecLife == Init /\ [][NextLife]_vars /\ WF_vars(StartSteps) /\ WF_vars(StopSteps)

(***************************************************************************)
(* The bridge with a caller of _refresh_devices.  The commands are the     *)
(* switch commands to a device with an On/Off cluster on endpoints 0 and 1 *)
(* and to one with an On/Off cluster on endpoint 0 only; a joining device  *)
(* has all its endpoints enumerated.                                       *)
(***************************************************************************)
RefreshTopics == {SetTopic(a, "switch") : a \in {"d1", "d3"}}
RefreshPayloads == {Payload({"state"}, "on", 0, 0, 0, NoneVal, NoneVal)}
ReadResults == {"Success", "Error"}

NextRefresh ==
    \/ StartBegin
    \/ StartNetworkBegin
    \/ FromConfigDone("ok")
    \/ InitializeDone("ok")
    \/ InitDevicesDone("ok")
    \/ RefreshFire
    \/ \E r \in ReadResults : RefreshRead(r)
    \/ \E topic \in RefreshTopics, p \in RefreshPayloads : Receive(topic, p)
    \/ \E c \in 1..Len(cmds) : Dispatch(c)
    \/ \E c \in 1..Len(cmds), r \in CallResults : Complete(c, r)
    \/ \E c \in 1..Len(cmds) : Wake(c)
    \/ \E d \in Devices : DeviceJoined(d, DOMAIN DeviceEndpoints(d))
    \/ \E d \in Devices : DeviceInitialized(d)
    \/ \E d \in Devices : DeviceRemoved(d)
    \/ \E d \in Devices, b \in {"available", "unavailable"} : SetAvailability(d, b)

SpecRefresh == Init /\ [][NextRefresh]_vars

(***************************************************************************)
(* The bridge on the bus: every kind of inbound message, among them topics *)
(* that no pattern of the bridge generates and the permit-join command.    *)
(* x and y take a value whose product with 65535 is not an integer and a   *)
(* value above 1.                                                          *)
(***************************************************************************)
ExtraSegmentTopic == <<"zigbee", "device", "d1", "extra", "switch", "set">>
NoAddressTopic == <<"zigbee", "device", "switch", "set">>
OtherPrefixTopic == <<"zigbee", "group", "d1", "switch", "set">>

BusTopics ==
    {SetTopic("d1", k) : k \in Kinds}
    \cup {PermitJoinTopic, StateTopic("d1", "switch"),
          ExtraSegmentTopic, NoAddressTopic, OtherPrefixTopic}

PermitPayload(b) ==
    [json |-> TRUE, has |-> {"permit_join"}, state |-> "", brightness |-> 0, hue |-> 0,
     saturation |-> 0, x |-> NoneVal, y |-> NoneVal, permit_join |-> b]

BusPayloads ==
    {NotJson,
     Payload({"state"}, "on", 0, 0, 0, NoneVal, NoneVal),
     Payload({"brightness"}, "", 200, 0, 0, NoneVal, NoneVal),
     Payload({"x", "y"}, "", 0, 0, 0, 1, 1500),
     PermitPayload(TRUE), PermitPayload(FALSE)}

NextBus ==
    \/ StartBegin
    \/ StartNetworkBegin
    \/ FromConfigDone("ok")
    \/ InitializeDone("ok")
    \/ InitDevicesDone("ok")
    \/ \E topic \in BusTopics, p \in BusPayloads : Receive(topic, p)
    \/ \E c \in 1..Len(cmds) : Dispatch(c)
    \/ \E c \in 1..Len(cmds), r \in CallResults : Complete(c, r)
    \/ \E c \in 1..Len(cmds) : Wake(c)
    \/ \E d \in Devices : DeviceRemoved(d)

SpecBus == Init /\ [][NextBus]_vars

(***************************************************************************)
(* The bridge with the attribute updates of its bound cluster handlers, a  *)
(* device that joins and leaves, and the commands that succeed: a switch   *)
(* command and the permit-join command.  The zone status takes values with *)
(* bits set below and above bit 8.                                         *)
(***************************************************************************)
ZoneValues == {0, 5, 255, 256, 65285, 65535}

AttrTopics == {SetTopic("d1", "switch"), PermitJoinTopic}
AttrPayloads == {Payload({"state"}, "on", 0, 0, 0, NoneVal, NoneVal), PermitPayload(TRUE)}

AttrInputs(cl) ==
    CASE cl = OnOff        -> {<<"on_off", 1>>}
      [] cl = LevelControl -> {<<"current_level", 128>>}
      [] cl = ColorControl -> {<<"current_x", 100>>}
      [] cl = IasZone      -> {<<"zone_status", v>> : v \in ZoneValues \cup {NoneVal}}
      [] cl = Temperature  -> {<<"measured_value", 2150>>, <<"measured_value", NoneVal>>}
      [] OTHER             -> {<<"measured_value", 4500>>, <<"measured_value", NoneVal>>}

NextAttr ==
    \/ StartBegin
    \/ StartNetworkBegin
    \/ FromConfigDone("ok")
    \/ InitializeDone("ok")
    \/ InitDevicesDone("ok")
    \/ \E topic \in AttrTopics, p \in AttrPayloads : Receive(topic, p)
    \/ \E c \in 1..Len(cmds) : Dispatch(c)
    \/ \E c \in 1..Len(cmds) : Complete(c, "Success")
    \/ \E k \in BindKeys : \E in \in AttrInputs(k[3]) : AttributeUpdated(k, in[1], in[2])
    \/ DeviceInitialized("d3")
    \/ DeviceJoined("d3", DOMAIN DeviceEndpoints("d3"))
    \/ DeviceLeft("d3")

SpecAttr == Init /\ [][NextAttr]_vars

(***************************************************************************)
(* Two commands in flight: switch commands to two devices that both carry  *)
(* an On/Off cluster on a non-zero endpoint.                               *)
(***************************************************************************)
PairTopics == {SetTopic(a, "switch") : a \in {"d1", "d2"}}
PairPayloads == {Payload({"state"}, "on", 0, 0, 0, NoneVal, NoneVal)}

NextPair ==
    \/ StartBegin
    \/ StartNetworkBegin
    \/ FromConfigDone("ok")
    \/ InitializeDone("ok")
    \/ InitDevicesDone("ok")
    \/ \E topic \in PairTopics, p \in PairPayloads : ReceiveUpTo(MaxPair, topic, p)
    \/ \E c \in 1..Len(cmds) : Dispatch(c)
    \/ \E c \in 1..Len(cmds), r \in CallResults : Complete(c, r)
    \/ \E c \in 1..Len(cmds) : Wake(c)

SpecPair == Init /\ [][NextPair]_vars

(***************************************************************************)
(* Commands during a startup that fails and retries: the MQTT client       *)
(* delivers messages from the moment start has started it.                 *)
(***************************************************************************)
RetryTopics == {SetTopic("d1", "switch"), PermitJoinTopic}
RetryPayloads == {Payload({"state"}, "on", 0, 0, 0, NoneVal, NoneVal), PermitPayload(TRUE)}

NextRetry ==
    \/ StartSteps
    \/ \E topic \in RetryTopics, p \in RetryPayloads : Receive(topic, p)
    \/ \E c \in 1..Len(cmds) : Dispatch(c)
    \/ \E c \in 1..Len(cmds), r \in CallResults : Complete(c, r)
    \/ \E c \in 1..Len(cmds) : Wake(c)

SpecRetry == Init /\ [][NextRetry]_vars

(***************************************************************************)
(* Vocabulary of the properties.                                           *)
(***************************************************************************)
CmdIds == 1..Len(cmds)

\* the number of Device Network operations command c has issued
Issued(c) == Len(cmds[c].results) + (IF cmds[c].pc = "awaiting" THEN 1 ELSE 0)

\* the positions in `published` of the messages command c caused
PublishedBy(c) == {i \in 1..Len(published) : published[i].cmd = c}

IsStateTopic(t) == Len(t) >= 5 /\ t[1] = "zigbee" /\ t[2] = "device" /\ t[Len(t)] = "state"

OnOffWord(b) == IF b THEN "on" ELSE "off"

\* what the registry holds for an address: "absent", "available" or "unavailable"
InRegistry(a) == IF a \in Addrs THEN devices[a] ELSE "absent"

Last(seq) == seq[Len(seq)]

\* the cluster a command of a kind is sent to
NeededCluster(kind) ==
    CASE kind = "switch" -> 6 [] kind = "light" -> 6
      [] kind = "brightness" -> 8 [] kind = "color" -> 768

\* device d has no cluster cl on any endpoint other than endpoint 0
LacksCluster(d, cl) ==
    \A ep \in DOMAIN DeviceEndpoints(d) : ep # 0 => cl \notin DeviceEndpoints(d)[ep]

(***************************************************************************)
(* C1: a switch set command whose first two Device Network attempts time   *)
(* out and whose third succeeds has published exactly one message, a       *)
(* retained one on the switch state topic of its address that carries the  *)
(* requested state ("on" for an "on" command), and has logged exactly two  *)
(* retry warnings.                                                         *)
(***************************************************************************)
C1_TwoTimeoutsThenSuccess ==
    \A c \in CmdIds :
        (cmds[c].kind = "switch" /\ cmds[c].results = <<"Timeout", "Timeout", "Success">>)
        => /\ cmds[c].pc = "done"
           /\ cmds[c].outcome = "Success"
           /\ cmds[c].warnings = 2
           /\ Cardinality(PublishedBy(c)) = 1
           /\ \A i \in PublishedBy(c) :
                /\ published[i].retain
                /\ published[i].topic = <<"zigbee", "device", cmds[c].ieee, "switch", "state">>
                /\ published[i].payload.state = OnOffWord(cmds[c].param.state)
                /\ published[i].payload.ieee = cmds[c].ieee

C1_Witness ==
    \E c \in CmdIds :
        /\ cmds[c].kind = "switch"
        /\ cmds[c].param.state
        /\ cmds[c].results = <<"Timeout", "Timeout", "Success">>
        /\ \E i \in PublishedBy(c) : published[i].payload.state = "on"

(***************************************************************************)
(* C2: when a switch command starts and its address matches no device of   *)
(* the registry, it returns at once as NotFound: it issues no Device       *)
(* Network operation, retries nothing and publishes nothing; and a command *)
(* that ended NotFound never issued, retried or published anything.        *)
(***************************************************************************)
C2_NotFoundState ==
    \A c \in CmdIds :
        cmds[c].outcome = "NotFound"
        => /\ cmds[c].pc = "done"
           /\ Issued(c) = 0
           /\ cmds[c].attempt = 0
           /\ cmds[c].warnings = 0
           /\ PublishedBy(c) = {}

C2_NotFoundStep ==
    \A c \in CmdIds :
        (/\ cmds[c].kind = "switch"
         /\ cmds[c].pc = "ready"
         /\ gw["device_handler"] # 0
         /\ InRegistry(cmds[c].ieee) = "absent"
         /\ cmds'[c] # cmds[c])
        => /\ cmds'[c].pc = "done"
           /\ cmds'[c].outcome = "NotFound"
           /\ published' = published

C2_SwitchNotFound == [](C2_NotFoundState) /\ [][C2_NotFoundStep]_vars

C2_Witness ==
    \E c \in CmdIds :
        /\ cmds[c].kind = "switch"
        /\ cmds[c].outcome = "NotFound"
        /\ InRegistry(cmds[c].ieee) = "absent"

(***************************************************************************)
(* C3: for every kind of command, a message on a state topic is published  *)
(* only by a command whose last Device Network operation returned          *)
(* successfully; a command publishes at most one message; the message      *)
(* carries the parameters of the command; and a command that did not       *)
(* succeed has published nothing.                                          *)
(***************************************************************************)
CarriesParameters(m, t) ==
    /\ m.retain
    /\ m.payload.ieee = t.ieee
    /\ CASE t.kind = "switch" ->
              /\ m.topic = <<"zigbee", "device", t.ieee, "switch", "state">>
              /\ m.payload.state = OnOffWord(t.param.state)
         [] t.kind = "light" ->
              /\ m.topic = <<"zigbee", "device", t.ieee, "light", "state">>
              /\ m.payload.state = OnOffWord(t.param.state)
         [] t.kind = "brightness" ->
              /\ m.topic = <<"zigbee", "device", t.ieee, "light", "brightness", "state">>
              /\ m.payload.brightness = t.param.brightness
         [] t.kind = "color" ->
              /\ m.topic = <<"zigbee", "device", t.ieee, "light", "color", "state">>
              /\ m.payload.hue = t.param.hue
              /\ m.payload.saturation = t.param.saturation
              /\ m.payload.x = t.param.x
              /\ m.payload.y = t.param.y

C3_PublishOnlyOnSuccess ==
    /\ \A i \in 1..Len(published) :
          IsStateTopic(published[i].topic) => published[i].cmd \in CmdIds
    /\ \A c \in CmdIds :
          /\ Cardinality(PublishedBy(c)) <= 1
          /\ cmds[c].outcome # "Success" => PublishedBy(c) = {}
          /\ \A i \in PublishedBy(c) :
                /\ cmds[c].results # <<>>
                /\ cmds[c].results[Len(cmds[c].results)] = "Success"
                /\ CarriesParameters(published[i], cmds[c])

C3_Witness ==
    \E c \in CmdIds :
        /\ cmds[c].kind = "color"
        /\ cmds[c].outcome = "Success"
        /\ cmds[c].param.x # NoneVal
        /\ PublishedBy(c) # {}

(***************************************************************************)
(* C4: for every kind of command, an attempt that times out before three   *)
(* attempts were made is followed by another attempt: no command ends on a *)
(* timeout with fewer than three attempts made.                            *)
(* The light, brightness and colour handlers have no retry loop, and end   *)
(* on their first timeout.                                                 *)
(***************************************************************************)
C4_TimeoutIsRetried ==
    \A c \in CmdIds :
        (cmds[c].pc = "done" /\ cmds[c].results # <<>> /\ Len(cmds[c].results) < 3)
        => Last(cmds[c].results) # "Timeout"

(***************************************************************************)
(* C5: a Device Network operation that fails with an error other than a    *)
(* timeout ends the command at once: the failed attempt is the last one,   *)
(* the command is over, and it has published nothing.                      *)
(***************************************************************************)
C5_ErrorAborts ==
    \A c \in CmdIds :
        \A i \in 1..Len(cmds[c].results) :
            cmds[c].results[i] = "Error"
            => /\ i = Len(cmds[c].results)
               /\ cmds[c].pc = "done"
               /\ cmds[c].outcome = "Error"
               /\ Issued(c) = i
               /\ PublishedBy(c) = {}

C5_Witness ==
    \E c \in CmdIds :
        /\ cmds[c].kind = "switch"
        /\ cmds[c].results = <<"Timeout", "Error">>
        /\ cmds[c].pc = "done"

(***************************************************************************)
(* C6: a command whose Device Network operation times out on every attempt *)
(* makes exactly three attempts and then ends with the timeout outcome,    *)
(* having published nothing; no command makes a fourth attempt.            *)
(* Only the switch handler does so; the other handlers end after one       *)
(* attempt (see C4).                                                       *)
(***************************************************************************)
C6_ThreeAttemptsThenTimeout ==
    \A c \in CmdIds :
        /\ Issued(c) <= 3
        /\ (/\ cmds[c].pc = "done"
            /\ cmds[c].results # <<>>
            /\ \A i \in 1..Len(cmds[c].results) : cmds[c].results[i] = "Timeout")
           => /\ Len(cmds[c].results) = 3
              /\ cmds[c].outcome = "TimeoutError"
              /\ PublishedBy(c) = {}

(***************************************************************************)
(* C7: when a command starts and its device is in the registry but marked  *)
(* unavailable, it ends at once with an Unavailable outcome: it issues no  *)
(* Device Network operation and publishes nothing.                         *)
(* No handler reads device.available.                                      *)
(***************************************************************************)
C7_UnavailableStep ==
    \A c \in CmdIds :
        (/\ cmds[c].pc = "ready"
         /\ gw["device_handler"] # 0
         /\ InRegistry(cmds[c].ieee) = "unavailable"
         /\ cmds'[c] # cmds[c])
        => /\ cmds'[c].pc = "done"
           /\ cmds'[c].outcome = "Unavailable"
           /\ published' = published

C7_UnavailableIsRefused == [][C7_UnavailableStep]_vars

(***************************************************************************)
(* C8: a command to a device of the registry that has no cluster of the    *)
(* kind the command needs on any endpoint other than endpoint 0 ends as    *)
(* Unsupported: it issues no Device Network operation, retries nothing and *)
(* publishes nothing.                                                      *)
(***************************************************************************)
C8_Unsupported ==
    \A c \in CmdIds :
        /\ cmds[c].outcome = "Unsupported"
           => /\ cmds[c].pc = "done"
              /\ Issued(c) = 0
              /\ cmds[c].attempt = 0
              /\ cmds[c].warnings = 0
              /\ PublishedBy(c) = {}
        /\ (cmds[c].device # "none" /\ LacksCluster(cmds[c].device, NeededCluster(cmds[c].kind)))
           => /\ cmds[c].pc = "done"
              /\ cmds[c].outcome = "Unsupported"
              /\ Issued(c) = 0

C8_Witness ==
    \E c \in CmdIds :
        /\ cmds[c].kind = "switch"
        /\ cmds[c].device = "d3"
        /\ 6 \in DeviceEndpoints("d3")[0]
        /\ cmds[c].outcome = "Unsupported"

(***************************************************************************)
(* C9: once the device a command holds has left (its device_left message   *)
(* is published and the registry no longer holds it), the command issues   *)
(* no further Device Network operation.                                    *)
(* The switch handler retries on the device object it looked up before     *)
(* its sleep, without looking at the registry again.                       *)
(***************************************************************************)
HasLeft(d) ==
    /\ InRegistry(d) = "absent"
    /\ \E i \in 1..Len(published) :
          /\ published[i].topic = <<"zigbee", "device", "left">>
          /\ published[i].payload.ieee = d

C9_RemovedStep ==
    \A c \in CmdIds :
        (cmds[c].device # "none" /\ HasLeft(cmds[c].device) /\ cmds[c].pc # "awaiting")
        => cmds'[c].pc # "awaiting"

C9_NoOperationAfterRemoval == [][C9_RemovedStep]_vars

(***************************************************************************)
(* C10: a join handler that found the endpoint set of its device empty     *)
(* made at most three checks and published a device_joined message for the *)
(* device, whatever the registry held for the address.                     *)
(* When the registry does not hold the address, the handler raises before  *)
(* it publishes.                                                           *)
(***************************************************************************)
C10_EmptyJoinPublishes ==
    (lastJoin.ieee # "none" /\ lastJoin.endpoints = {})
    => /\ lastJoin.polls <= 3
       /\ Len(published) > lastJoin.at
       /\ published[lastJoin.at + 1].topic = <<"zigbee", "device", "joined">>
       /\ published[lastJoin.at + 1].payload.ieee = lastJoin.ieee

(***************************************************************************)
(* C11: every run of the join handler leaves a listener on every supported *)
(* cluster of every non-zero endpoint of the device (when the registry     *)
(* holds the device as available), and publishes exactly two messages: a   *)
(* non-retained one on zigbee/device/joined, then a retained one with      *)
(* status "joined" on zigbee/device/{addr}/status.                         *)
(* A join for an address the registry does not hold publishes nothing.     *)
(***************************************************************************)
JoinStep == lastJoin'.n # lastJoin.n

C11_JoinStep ==
    JoinStep =>
        LET d == lastJoin'.ieee
            n == Len(published)
        IN  /\ \A k \in BindKeys :
                  (k[1] = d /\ k[2] # 0 /\ devices[d] = "available") => listeners'[k] >= 1
            /\ Len(published') = n + 2
            /\ published'[n + 1].topic = <<"zigbee", "device", "joined">>
            /\ ~published'[n + 1].retain
            /\ published'[n + 1].payload.ieee = d
            /\ published'[n + 2].topic = <<"zigbee", "device", d, "status">>
            /\ published'[n + 2].retain
            /\ published'[n + 2].payload.status = "joined"

C11_JoinBindsThenPublishes == [][C11_JoinStep]_vars

(***************************************************************************)
(* C12: a run of the device-left handler publishes exactly one             *)
(* non-retained device_left message on zigbee/device/left and leaves the   *)
(* registry without the device.                                            *)
(* The handler only publishes; gateway.devices is not touched.             *)
(***************************************************************************)
LeftStep(d) ==
    /\ events' = events + 1
    /\ lastJoin' = lastJoin
    /\ published' = Append(published, LeftMessage(d))

C12_LeftStep ==
    \A d \in Devices :
        LeftStep(d) => /\ ~Last(published').retain
                       /\ devices'[d] = "absent"

C12_LeftRemovesDevice == [][C12_LeftStep]_vars

(***************************************************************************)
(* C13: no (device, endpoint, supported cluster) ever has more than one    *)
(* attribute-update callback registered, nor more than one cluster         *)
(* listener added.                                                         *)
(* Every run of the binding code registers one more callback: a join of a  *)
(* device that was bound at startup leaves two.                            *)
(***************************************************************************)
C13_AtMostOneListener ==
    \A k \in BindKeys : listeners[k] <= 1 /\ iasListeners[k] <= 1

(***************************************************************************)
(* C14: once the bridge runs, a supported cluster of a non-zero endpoint   *)
(* has a callback registered exactly when the registry holds its device as *)
(* available.                                                              *)
(* Nothing unregisters a callback when a device becomes unavailable, and   *)
(* nothing registers one when a device becomes available without a join.   *)
(***************************************************************************)
C14_BoundIffAvailable ==
    startPc = "running" =>
        \A k \in BindKeys :
            k[2] # 0 => ((listeners[k] >= 1) <=> (devices[k[1]] = "available"))

(***************************************************************************)
(* C15: endpoint 0 is never bridged: no attribute-update callback and no   *)
(* cluster listener is registered on a cluster of endpoint 0, no command   *)
(* is issued to endpoint 0, and no sweep reads a cluster of endpoint 0.    *)
(***************************************************************************)
C15_EndpointZeroNeverBridged ==
    /\ \A k \in BindKeys : k[2] = 0 => (listeners[k] = 0 /\ iasListeners[k] = 0)
    /\ \A c \in CmdIds : Issued(c) > 0 => cmds[c].ep # 0
    /\ \A i \in 1..Len(refresh.reads) : refresh.reads[i].ep # 0

\* d3, whose On/Off cluster sits on endpoint 0, was bound by a join and read by a
\* sweep, and a command to d1 was issued
C15_Witness ==
    /\ listeners[<<"d3", 1, IasZone>>] >= 1
    /\ \E i \in 1..Len(refresh.reads) : refresh.reads[i].ieee = "d3"
    /\ \E c \in CmdIds : Issued(c) > 0 /\ cmds[c].ieee = "d1"

(***************************************************************************)
(* C16: a finished sweep in which a read raised, over a registry that did  *)
(* not change, made as many reads as there are bindings: one per supported *)
(* cluster of a non-zero endpoint of an available device.                  *)
(* A read that raises does not stop the sweep, but the sweep also reads    *)
(* the devices that are not available (C17).                               *)
(***************************************************************************)
TotalBindings(reg) ==
    Cardinality({k \in BindKeys : k[2] # 0 /\ reg[k[1]] = "available"})

C16_FailedReadDoesNotChangeCount ==
    (refresh.pc = "done" /\ refresh.failed /\ devices = refresh.snapshot)
    => Len(refresh.reads) = TotalBindings(refresh.snapshot)

(***************************************************************************)
(* C17: every read of a sweep is issued to a device that is available when *)
(* the read is issued and is not the coordinator.                          *)
(* The sweep skips the coordinator only; device.available is not read.     *)
(***************************************************************************)
C17_ReadsOnlyAvailable ==
    \A i \in 1..Len(refresh.reads) :
        /\ refresh.reads[i].ieee # Coordinator
        /\ refresh.reads[i].available = "available"

(***************************************************************************)
(* C19: a finished sweep was not aborted and has issued every read of      *)
(* every device that the registry held when the sweep began and still      *)
(* holds.                                                                  *)
(* The sweep iterates gateway.devices itself: a device added or removed    *)
(* while a read is awaited makes the next advance of the device loop       *)
(* raise, and the devices not yet reached are not read.                    *)
(***************************************************************************)
WasRead(d, i) ==
    \E j \in 1..Len(refresh.reads) :
        /\ refresh.reads[j].ieee = d
        /\ refresh.reads[j].ep = DeviceReads(d)[i][1]
        /\ refresh.reads[j].cluster = DeviceReads(d)[i][2]

C19_SweepCoversSnapshot ==
    refresh.pc = "done" =>
        /\ ~refresh.aborted
        /\ \A d \in Devices :
              (refresh.snapshot[d] # "absent" /\ devices[d] # "absent")
              => \A i \in 1..Len(DeviceReads(d)) : WasRead(d, i)

(***************************************************************************)
(* C18: once start has succeeded, a sweep of the refresher runs, unless    *)
(* stop is called first.                                                   *)
(* start creates no task for _refresh_devices and nothing else calls it:   *)
(* the bridge runs on without any sweep.                                   *)
(***************************************************************************)
C18_RefresherFires ==
    (startPc = "running") ~> (refresh.sweeps > 0 \/ stop.pc # "idle")

(***************************************************************************)
(* C20: when stop has returned, it has raised nothing and has made every   *)
(* one of its steps: the offline status publish, the shutdown of the       *)
(* gateway (when there is one) and the disconnect of the MQTT client,      *)
(* whichever of them raised.                                               *)
(* A shutdown that raises jumps to the except of stop, over                *)
(* mqtt_handler.stop().                                                    *)
(***************************************************************************)
Called(name) == \E i \in 1..Len(stop.calls) : stop.calls[i][1] = name

C20_StopMakesEveryStep ==
    stop.pc = "done" =>
        /\ ~stop.raised
        /\ Called("publish_status")
        /\ (gw["coordinator"] # 0 => Called("shutdown"))
        /\ Called("disconnect")

(***************************************************************************)
(* C21: start makes at most 3 attempts to bring the Device Network up, and *)
(* a new attempt begins only out of the sleep that follows a failed one;   *)
(* the "online" coordinator status is published only by the step that ends *)
(* a successful attempt; the step in which the third attempt fails         *)
(* publishes the "offline" status and start raises.                        *)
(***************************************************************************)
StatusAt(status) == {i \in 1..Len(published) : published[i] = publish_status(status)}

AttemptPoints == {"creating", "initializing", "loading"}

C21_StartState ==
    /\ startAttempt < retry_count
    /\ StatusAt("online") # {} => startPc \in {"running", "interrupted"}
    /\ startPc = "failed" =>
          /\ startAttempt = retry_count - 1
          /\ StatusAt("offline") # {}
          /\ StatusAt("online") = {}

C21_StartStep ==
    /\ startAttempt' # startAttempt =>
          /\ startPc = "backoff"
          /\ startPc' = "creating"
          /\ startAttempt' = startAttempt + 1
    /\ startPc' = "backoff" /\ startPc # "backoff" =>
          startPc \in AttemptPoints /\ startAttempt < retry_count - 1
    /\ StatusAt("online")' # StatusAt("online") =>
          /\ startPc = "loading" /\ startPc' = "running"
          /\ published' = Append(published, publish_status("online"))
    /\ startPc' = "failed" /\ startPc # "failed" =>
          /\ startPc \in AttemptPoints
          /\ startAttempt = retry_count - 1
          /\ published' = Append(published, publish_status("offline"))

C21_StartRetries == [](C21_StartState) /\ [][C21_StartStep]_vars

\* the third attempt has failed and stop has not been called yet
C21_Witness ==
    /\ startPc = "failed"
    /\ stop.pc = "idle"
    /\ startAttempt = retry_count - 1
    /\ published = <<publish_status("offline")>>

(***************************************************************************)
(* C22: once the startup timeout has expired in an attempt of start, the   *)
(* start is over: it does not go on to run the bridge, and no "online"      *)
(* status is published.                                                    *)
(* The timeout of wait_for is raised again as a RuntimeError, which the    *)
(* retry loop of start treats like any other failure of an attempt: it     *)
(* sleeps and tries again, and an attempt that succeeds publishes          *)
(* "online".                                                               *)
(***************************************************************************)
C22_StartupTimeoutIsFatal ==
    last_error = "timeout" =>
        /\ startPc # "running"
        /\ StatusAt("online") = {}

(***************************************************************************)
(* C23: the handling of an inbound message whose payload is not JSON or    *)
(* lacks the field its command needs (state for switch and light,          *)
(* brightness for brightness, hue and saturation or x and y for color)     *)
(* creates no command.                                                     *)
(* payload.get supplies a default for a missing field: a brightness        *)
(* message without brightness becomes a brightness command of 0, a color   *)
(* message without any pair becomes a color command of hue 0 and           *)
(* saturation 0.                                                           *)
(***************************************************************************)
LacksRequired(kind, p) ==
    \/ ~p.json
    \/ kind \in {"switch", "light"} /\ "state" \notin p.has
    \/ kind = "brightness" /\ "brightness" \notin p.has
    \/ kind = "color" /\ ~({"hue", "saturation"} \subseteq p.has)
                      /\ ~({"x", "y"} \subseteq p.has)

C23_MalformedStep ==
    \A a \in Targets, kind \in Kinds, p \in Payloads :
        (LacksRequired(kind, p) /\ Receive(SetTopic(a, kind), p)) => cmds' = cmds

C23_MalformedIsDropped == [][C23_MalformedStep]_vars

(***************************************************************************)
(* C24: in the bridge that receives messages, parsing the topic generated  *)
(* for an address, a capability and a direction gives back the address,    *)
(* the capability and the direction, for the set topics and for the state  *)
(* topics, the switch state topic among them.                              *)
(* The only topic analysis of the bridge is the chain of tests of          *)
(* _on_mqtt_message, which knows the set topics and zigbee/permit_join: a  *)
(* state topic falls through every branch.                                 *)
(***************************************************************************)
topicFor(addr, kind, direction) ==
    IF direction = "set" THEN SetTopic(addr, kind) ELSE StateTopic(addr, kind)

C24_ParseInvertsTopicFor ==
    mqttStarted =>
        \A addr \in Targets, kind \in Kinds, direction \in {"set", "state"} :
            parse(topicFor(addr, kind, direction)) = <<addr, kind, direction>>

(***************************************************************************)
(* C25: a topic that is none of the generated patterns (zigbee/permit_join *)
(* and zigbee/device/<address>/<capability suffix>/set with the address in *)
(* one segment) is a parse error, and handling a message on it creates no  *)
(* command.                                                                *)
(* The device branches test only the beginning and the end of the topic:   *)
(* segments between the address and the suffix are accepted, and so is a   *)
(* topic without an address segment, whose third segment is then taken for *)
(* the address.                                                            *)
(***************************************************************************)
Generated(topic) ==
    \/ topic = PermitJoinTopic
    \/ Len(topic) >= 3 /\ \E kind \in Kinds : topic = SetTopic(topic[3], kind)

C25_RejectState ==
    mqttStarted =>
        \A topic \in BusTopics : ~Generated(topic) => parse(topic) = ParseError

C25_RejectStep ==
    \A topic \in BusTopics, p \in BusPayloads :
        (~Generated(topic) /\ Receive(topic, p)) => cmds' = cmds

C25_RejectsOtherTopics == [](C25_RejectState) /\ [][C25_RejectStep]_vars

(***************************************************************************)
(* C26: the state message of a successful switch command to a device and   *)
(* the state message of an on_off attribute update of that device are      *)
(* published to the same topic, the switch state topic of the address of   *)
(* the device.                                                             *)
(* The command handler formats the topic with the address of the device;   *)
(* the attribute handler formats it with the unique id of the cluster      *)
(* handler, which names the endpoint and the cluster as well.              *)
(***************************************************************************)
C26_CommandState ==
    \A c \in CmdIds : \A i \in PublishedBy(c) :
        cmds[c].kind = "switch" => published[i].topic = StateTopic(cmds[c].ieee, "switch")

C26_ReportStep ==
    (attr'.n = attr.n + 1 /\ attr'.key[3] = OnOff /\ attr'.name = "on_off") =>
        \A i \in (Len(published) + 1)..Len(published') :
            published'[i].topic = StateTopic(attr'.key[1], "switch")

C26_OneStateTopic == [](C26_CommandState) /\ [][C26_ReportStep]_vars

(***************************************************************************)
(* C27: the handler of an attribute update whose raw value cannot be       *)
(* decoded (a zone status, a temperature or a humidity without a value)    *)
(* lets no exception out and publishes nothing.                            *)
(* The zone-status, temperature and humidity handlers convert the value    *)
(* outside any try: int(None) and None / 100.0 raise TypeError, which      *)
(* leaves the handler.                                                     *)
(***************************************************************************)
C27_UndecodableStep ==
    (/\ attr'.n = attr.n + 1
     /\ attr'.key[3] \in {IasZone, Temperature, Humidity}
     /\ attr'.value = NoneVal) =>
        /\ attr'.raised = attr.raised
        /\ published' = published

C27_UndecodableIsSwallowed == [][C27_UndecodableStep]_vars

(***************************************************************************)
(* C28: the state message of a zone-status update carries, for a raw value *)
(* of 16 bits, the flag of bit i (bit 0 alarm1, bit 1 alarm2, bit 2        *)
(* tamper, bit 3 battery, bit 4 supervision, bit 5 restore, bit 6 trouble, *)
(* bit 7 ac-mains) exactly when bit i of the value is set, each once, and  *)
(* nothing for the bits 8 to 15; the value 0x0005 gives alarm1 and tamper  *)
(* and no others.                                                          *)
(***************************************************************************)
FlagOfBit(i) ==
    CASE i = 0 -> "alarm1" [] i = 1 -> "alarm2" [] i = 2 -> "tamper" [] i = 3 -> "battery"
      [] i = 4 -> "supervision_reports" [] i = 5 -> "restore_reports"
      [] i = 6 -> "trouble" [] OTHER -> "ac_mains"

BitSet(v, i) == (v \div (2 ^ i)) % 2 = 1

FlagsOf(v) == {FlagOfBit(i) : i \in {b \in 0..7 : BitSet(v, b)}}

Elements(seq) == {seq[i] : i \in 1..Len(seq)}

C28_ZoneStep ==
    (/\ attr'.n = attr.n + 1
     /\ attr'.key[3] = IasZone
     /\ attr'.name = "zone_status"
     /\ attr'.value \in 0..65535) =>
        /\ Len(published') > Len(published)
        /\ \A i \in (Len(published) + 1)..Len(published') :
              LET flags == published'[i].payload.zone_status_flags
              IN  /\ Elements(flags) = FlagsOf(attr'.value)
                  /\ Len(flags) = Cardinality(FlagsOf(attr'.value))
                  /\ attr'.value = 5 => Elements(flags) = {"alarm1", "tamper"}
                  /\ published'[i].payload.zone_status = attr'.value

C28_ZoneStatusDecode == [][C28_ZoneStep]_vars

\* an update with value 0xFF05 has been decoded to alarm1 and tamper
C28_Witness ==
    /\ attr.n > 0
    /\ attr.key[3] = IasZone
    /\ attr.value = 65285
    /\ Len(published) > attr.at
    /\ published[attr.at + 1].topic[4] = "ias_zone"
    /\ published[attr.at + 1].payload.zone_status_flags = <<"alarm1", "tamper">>

(***************************************************************************)
(* C29: the operation a color command with a pair (x, y) issues carries,   *)
(* for each axis, the integer nearest to value * 65535, brought into       *)
(* 0..65535.                                                               *)
(* The handler sends int(value * 65535): int cuts the fraction off         *)
(* instead of rounding, and nothing limits the result, so a value above 1  *)
(* is sent as a number above 65535.                                        *)
(***************************************************************************)
\* round(n / 1000) for n >= 0 whose fraction is not one half
RoundNearest(n) == (2 * n + 1000) \div 2000

Clamp(v) == IF v < 0 THEN 0 ELSE IF v > 65535 THEN 65535 ELSE v

Encoded(v) == Clamp(RoundNearest(v * 65535))

C29_ColorEncoding ==
    \A c \in CmdIds :
        (/\ cmds[c].kind = "color"
         /\ cmds[c].param.x # NoneVal /\ cmds[c].param.y # NoneVal
         /\ cmds[c].op # <<>>) =>
            /\ cmds[c].op = <<"move_to_color", Encoded(cmds[c].param.x),
                              Encoded(cmds[c].param.y), 0>>
            /\ cmds[c].op[2] \in 0..65535
            /\ cmds[c].op[3] \in 0..65535

(***************************************************************************)
(* C30: every message published on a state topic of a device, on a status  *)
(* topic of a device, on zigbee/coordinator/status or on                   *)
(* zigbee/permit_join/status is retained, and every message published on   *)
(* zigbee/device/joined or zigbee/device/left is not.                      *)
(***************************************************************************)
IsDeviceStatusTopic(t) ==
    Len(t) = 4 /\ t[1] = "zigbee" /\ t[2] = "device" /\ t[4] = "status"

IsRetainedTopic(t) ==
    \/ IsStateTopic(t)
    \/ IsDeviceStatusTopic(t)
    \/ t = <<"zigbee", "coordinator", "status">>
    \/ t = <<"zigbee", "permit_join", "status">>

IsEventTopic(t) ==
    t = <<"zigbee", "device", "joined">> \/ t = <<"zigbee", "device", "left">>

C30_RetainedFlags ==
    \A i \in 1..Len(published) :
        /\ IsRetainedTopic(published[i].topic) => published[i].retain
        /\ IsEventTopic(published[i].topic) => ~published[i].retain
        /\ IsRetainedTopic(published[i].topic) \/ IsEventTopic(published[i].topic)

PublishedTopics == {published[i].topic : i \in 1..Len(published)}

\* a message of every kind has been published
C30_Witness ==
    /\ <<"zigbee", "coordinator", "status">> \in PublishedTopics
    /\ <<"zigbee", "permit_join", "status">> \in PublishedTopics
    /\ <<"zigbee", "device", "joined">> \in PublishedTopics
    /\ <<"zigbee", "device", "left">> \in PublishedTopics
    /\ \E t \in PublishedTopics : IsDeviceStatusTopic(t)
    /\ \E t \in PublishedTopics : IsStateTopic(t)

(***************************************************************************)
(* C31: no command waits for another one.  Whatever the other tasks are    *)
(* doing, a task that has not run yet can run, a task suspended in its     *)
(* Device Network operation can take the result of the operation, and a    *)
(* task in its retry delay can wake up; so a command received later, to    *)
(* another device, can be issued and complete while an earlier one is      *)
(* still suspended.                                                        *)
(***************************************************************************)
C31_NoCommandWaits ==
    \A c \in CmdIds :
        /\ cmds[c].pc = "ready" => ENABLED Dispatch(c)
        /\ cmds[c].pc = "awaiting" => ENABLED Complete(c, "Success")
        /\ cmds[c].pc = "sleeping" => ENABLED Wake(c)

\* the second command, to another device, has succeeded and published its state
\* while the first is still in its retry delay after a timeout
C31_Witness ==
    /\ Len(cmds) = 2
    /\ cmds[1].ieee # cmds[2].ieee
    /\ cmds[1].pc = "sleeping"
    /\ cmds[2].outcome = "Success"
    /\ PublishedBy(2) # {}
    /\ PublishedBy(1) = {}

(***************************************************************************)
(* C32: a stop that has made all its steps has made them in this order:    *)
(* the disconnect of the MQTT client, then the shutdown of the gateway,    *)
(* then the publish of the offline status.                                 *)
(* stop publishes the offline status first, then shuts the gateway down,   *)
(* and disconnects the MQTT client last; it has no step that stops a       *)
(* refresher.                                                              *)
(***************************************************************************)
CallAt(name) == CHOOSE i \in 1..Len(stop.calls) : stop.calls[i][1] = name

C32_ShutdownOrder ==
    (/\ stop.pc = "done"
     /\ Called("publish_status") /\ Called("shutdown") /\ Called("disconnect")) =>
        /\ CallAt("disconnect") < CallAt("shutdown")
        /\ CallAt("shutdown") < CallAt("publish_status")

(***************************************************************************)
(* C33: every delay a command makes between a timed-out attempt and the    *)
(* next one lasts 2 units, for the device commands and for permit-join,    *)
(* and no command issues more than 3 operations.                           *)
(* handle_permit_join sleeps 1 between its attempts, not 2.                *)
(***************************************************************************)
C33_FixedBackoff ==
    \A c \in CmdIds :
        /\ \A i \in 1..Len(cmds[c].sleeps) : cmds[c].sleeps[i] = 2
        /\ Issued(c) <= 3

(***************************************************************************)
(* C34: the capabilities of a device_joined message stand for the          *)
(* supported clusters (On/Off, Level Control, Color Control, IAS Zone,     *)
(* Temperature, Humidity) found in the inbound clusters of the enumerated  *)
(* non-zero endpoints of the device, for all of them and for nothing else. *)
(* get_endpoint_capabilities has no tag for Level Control, Temperature and *)
(* Humidity, and tags the Thermostat and Door Lock clusters, which the     *)
(* bridge does not support.                                                *)
(***************************************************************************)
TagCluster(tag) ==
    CASE tag = "switch" -> OnOff [] tag = "light" -> ColorControl
      [] tag = "ias_zone" -> IasZone [] tag = "thermostat" -> Thermostat
      [] OTHER -> DoorLock

SupportedOn(d, eps) ==
    UNION {DeviceEndpoints(d)[ep] \cap SupportedClusters : ep \in eps \ {0}}

C34_JoinStep ==
    (events' = events + 1 /\ lastJoin'.n = events') =>
        \A i \in (Len(published) + 1)..Len(published') :
            published'[i].topic = <<"zigbee", "device", "joined">> =>
                {TagCluster(tag) : tag \in published'[i].payload.capabilities}
                    = SupportedOn(lastJoin'.ieee, lastJoin'.endpoints)

C34_JoinedCapabilities == [][C34_JoinStep]_vars

(***************************************************************************)
(* C35: once start has succeeded, the MQTT handler, the device command     *)
(* handler, the event handler and the cluster handler hold the gateway the *)
(* coordinator holds; and whenever a command handler issues an operation,  *)
(* it issues it through the gateway the coordinator holds at that moment.  *)
(* handle_switch_command looks its device up once, before its retry loop:  *)
(* when a startup retry replaces the gateway while the command sleeps      *)
(* between two attempts, the next attempt goes to the device object of the *)
(* replaced gateway.                                                       *)
(***************************************************************************)
C35_SameHandleState ==
    startPc = "running" =>
        \A h \in Holders : gw[h] = gw["coordinator"] /\ gw[h] # 0

C35_IssueStep ==
    \A c \in 1..Len(cmds) :
        (cmds'[c].pc = "awaiting" /\ cmds[c].pc # "awaiting") =>
            cmds'[c].handle = gw'["coordinator"]

C35_CurrentHandle == [](C35_SameHandleState) /\ [][C35_IssueStep]_vars

(***************************************************************************)
(* C36: of the gateways start has created, at most one has not been shut   *)
(* down at any time, and none once stop has returned (a shutdown that      *)
(* raises counts as a release).                                            *)
(* Nothing shuts down the gateway of a failed attempt: the next attempt    *)
(* creates another one and overwrites the only reference, and stop shuts   *)
(* down the last one only.                                                 *)
(***************************************************************************)
ShutDown == Cardinality({i \in 1..Len(stop.calls) : stop.calls[i][1] = "shutdown"})

LiveGateways == gwCount - ShutDown

C36_OneLiveGateway ==
    /\ LiveGateways <= 1
    /\ stop.pc = "done" => LiveGateways = 0

(***************************************************************************)
(* C37: while the bus is started and start has not yet finished            *)
(* initializing the Device Network, no step issues a Device Network        *)
(* operation for a received set or permit-join message and no step         *)
(* publishes on behalf of one.                                             *)
(* The handlers test only that a gateway and its application controller    *)
(* exist, which is true from the return of async_initialize on, before     *)
(* async_initialize_devices_and_entities has run.                          *)
(***************************************************************************)
NetworkInitializing ==
    mqttStarted /\ startPc \in {"starting", "creating", "initializing", "loading", "backoff"}

C37_EarlyStep ==
    NetworkInitializing =>
        /\ \A c \in 1..Len(cmds) : cmds'[c].pc = "awaiting" => cmds[c].pc = "awaiting"
        /\ {i \in 1..Len(published') : published'[i].cmd # 0}
               = {i \in 1..Len(published) : published[i].cmd # 0}

C37_NothingBeforeInitialized == [][C37_EarlyStep]_vars

====
